---- MODULE Spec2Model ----
(***************************************************************************)
(* Model of the visual grouping pipeline of visirs:                        *)
(*   src/visual_grouping/hash.rs      hamming_distance                     *)
(*   src/visual_grouping/grouping.rs  process_asset,                       *)
(*                                    are_assets_visually_similar,         *)
(*                                    group_assets_by_visual_similarity    *)
(*   src/visual_grouping/video.rs     extract_frames_from_video            *)
(*                                                                         *)
(* Four specifications share the module:                                   *)
(*   Spec         one call of group_assets_by_visual_similarity            *)
(*   SpecSimilar  are_assets_visually_similar applied to bounded inputs    *)
(*   SpecHamming  hamming_distance applied to bounded inputs               *)
(*   SpecVideo    one call of extract_frames_from_video                    *)
(* Each one holds the variables of the others at their initial values.     *)
(***************************************************************************)
EXTENDS Integers, Sequences, FiniteSets, TLC

VARIABLES
    \* ---- group_assets_by_visual_similarity (grouping.rs:104-191) ----
    assets,           \* the input Vec<Asset>
    thresold_opt,     \* the input Option<u32>
    thresold,         \* the local after unwrap_or
    pc,               \* position in the call
    cur,              \* index of the asset the map closure is processing
    frame_paths,      \* process_asset: frame_paths
    frame_hashes,     \* process_asset: frame_hashes
    process_results,  \* Vec<(HashedAsset, Option<TempDir>)>: the Option<TempDir> of each tuple
    temp_dirs,        \* the temporary directories that exist on disk
    hashed_assets,    \* the HashedAsset of each tuple, and from line 129 Vec<HashedAsset>
    groups,           \* Vec<AssetGroup>
    assigned,         \* HashSet<String>
    result,           \* what the call returned
    stdout,           \* the "Processing asset" lines printed so far
    \* ---- are_assets_visually_similar on its own ----
    cmp,
    \* ---- hamming_distance on its own ----
    ham,
    \* ---- extract_frames_from_video ----
    duration,         \* seconds * AV_TIME_BASE
    frame_interval,   \* seconds * AV_TIME_BASE
    frame_times,      \* Vec<f64>, each seconds * AV_TIME_BASE
    t,                \* the loop variable of the target loop
    idx,              \* index of the current target (0-based, as enumerate())
    packets_read,     \* packets taken from input.packets() since the last seek
    vframe_paths,     \* extract_frames_from_video: frame_paths (target indices)
    vpc,
    vresult

groupVars == <<assets, thresold_opt, thresold, pc, cur, frame_paths, frame_hashes,
               process_results, temp_dirs, hashed_assets, groups, assigned,
               result, stdout>>
videoVars == <<duration, frame_interval, frame_times, t, idx, packets_read,
               vframe_paths, vpc, vresult>>
vars == <<groupVars, cmp, ham, videoVars>>

(***************************************************************************)
(* Bounds of the model.                                                    *)
(***************************************************************************)
MaxAssets == 3          \* length of the input list
MaxFrames == 2          \* frames extract_frames_from_video returns in Spec
MaxCmpFrames == 2       \* frames per asset in SpecSimilar
MaxHashLen == 2         \* bytes per hash in SpecHamming
MaxTargets == 6         \* SpecVideo decodes videos with at most this many targets
MaxFramesPerPacket == 2 \* frames the decoder yields for one packet
MaxPacketsPerSeek == 2  \* packets left in the file after a seek

(***************************************************************************)
(* Program constants.                                                      *)
(***************************************************************************)
DefaultThresold == 15
HashLen == 8
AV_TIME_BASE == 1000000
TicksPerSecond == 1000   \* the video stream's time_base is 1/1000 in the model's videos

Min(a, b) == IF a <= b THEN a ELSE b
Max(a, b) == IF a >= b THEN a ELSE b

RECURSIVE Pow2(_)
Pow2(n) == IF n = 0 THEN 1 ELSE 2 * Pow2(n - 1)

(***************************************************************************)
(* hash.rs: hamming_distance                                               *)
(***************************************************************************)
\* u8 ^ u8
RECURSIVE BitXor(_, _)
BitXor(x, y) ==
    IF x = 0 /\ y = 0 THEN 0
    ELSE (((x % 2) + (y % 2)) % 2) + 2 * BitXor(x \div 2, y \div 2)

\* u8::count_ones
RECURSIVE count_ones(_)
count_ones(x) == IF x = 0 THEN 0 ELSE (x % 2) + count_ones(x \div 2)

\* a plausible slip: counts the differing bytes, not the differing bits
ByteDiffers(byte1, byte2) == IF byte1 = byte2 THEN 0 ELSE 1

\* the body of the zip loop for one pair of bytes
ByteDistance(byte1, byte2) == count_ones(BitXor(byte1, byte2))

\* the for loop over hash1.iter().zip(hash2.iter()), from position k
RECURSIVE ZipDistance(_, _, _)
ZipDistance(hash1, hash2, k) ==
    IF k > Len(hash1) THEN 0
    ELSE ByteDistance(hash1[k], hash2[k]) + ZipDistance(hash1, hash2, k + 1)

Ok(v) == [ok |-> TRUE, val |-> v]
Err == [ok |-> FALSE, val |-> 0]

hamming_distance(hash1, hash2) ==
    IF Len(hash1) # Len(hash2) THEN Err
    ELSE Ok(ZipDistance(hash1, hash2, 1))

(***************************************************************************)
(* grouping.rs: are_assets_visually_similar                                *)
(***************************************************************************)
\* a plausible slip: `>` where the code has `>=`
RECURSIVE AllFramesCloseInclusive(_, _, _, _, _)
AllFramesCloseInclusive(frames1, frames2, min_frame_count, t0, k) ==
    IF k > min_frame_count THEN TRUE
    ELSE LET d == hamming_distance(frames1[k].hash, frames2[k].hash)
         IN IF d.ok
            THEN IF d.val > t0 THEN FALSE
                 ELSE AllFramesCloseInclusive(frames1, frames2, min_frame_count, t0, k + 1)
            ELSE FALSE

\* the loop over 0..min_frame_count, from (1-based) position k
RECURSIVE AllFramesClose(_, _, _, _, _)
AllFramesClose(frames1, frames2, min_frame_count, t0, k) ==
    IF k > min_frame_count THEN TRUE
    ELSE LET d == hamming_distance(frames1[k].hash, frames2[k].hash)
         IN IF d.ok
            THEN IF d.val >= t0 THEN FALSE
                 ELSE AllFramesClose(frames1, frames2, min_frame_count, t0, k + 1)
            ELSE FALSE

\* a plausible slip: the type gate left out
SimilarIgnoringType(asset1, asset2, t0) ==
    LET min_frame_count == Min(Len(asset1.frames), Len(asset2.frames))
    IN IF min_frame_count = 0 THEN FALSE
       ELSE AllFramesClose(asset1.frames, asset2.frames, min_frame_count, t0, 1)

are_assets_visually_similar(asset1, asset2, t0) ==
    IF asset1.asset.is_video # asset2.asset.is_video THEN FALSE
    ELSE LET min_frame_count == Min(Len(asset1.frames), Len(asset2.frames))
         IN IF min_frame_count = 0 THEN FALSE
            ELSE AllFramesClose(asset1.frames, asset2.frames, min_frame_count, t0, 1)

(***************************************************************************)
(* Inputs of group_assets_by_visual_similarity.                            *)
(***************************************************************************)
\* An 8-byte hash whose first k bits are one: two of them differ in |k1 - k2| bits.
HashOfBits(k) ==
    [b \in 1..HashLen |->
        LET c == Min(8, Max(0, k - 8 * (b - 1))) IN 256 - Pow2(8 - c)]

\* What generate_perceptual_hash can return for the files of a grouping call:
\* two hashes that differ in exactly DefaultThresold bits.
FileHashes == {HashOfBits(0), HashOfBits(DefaultThresold)}

\* Asset: id is the unique identifier of the data model, path is the asset's
\* file, one per input position; name and mime_type play no part in processing
\* or grouping.
AssetId(k) == 100 + k

AssetInputs ==
    UNION {
        {[k \in 1..n |-> [id |-> AssetId(k), path |-> k, is_video |-> video[k]]] :
            video \in [1..n -> BOOLEAN]} :
        n \in 0..MaxAssets}

None == [some |-> FALSE, val |-> 0]
Some(v) == [some |-> TRUE, val |-> v]
\* the default, under which FileHashes are not similar, and one more, under
\* which they are
ThresoldInputs == {None, Some(DefaultThresold + 1)}

NoResult == [status |-> "none", asset |-> 0, stage |-> "", groups |-> <<>>]

(***************************************************************************)
(* SpecSimilar, SpecHamming and SpecVideo at rest.                         *)
(***************************************************************************)
CmpIdle == [state |-> "idle"]
HamIdle == [state |-> "idle"]
VideoIdle ==
    /\ duration = 0
    /\ frame_interval = 0
    /\ frame_times = <<>>
    /\ t = 0
    /\ idx = 0
    /\ packets_read = 0
    /\ vframe_paths = <<>>
    /\ vpc = "idle"
    /\ vresult = "none"

GroupIdle ==
    /\ assets = <<>>
    /\ thresold_opt = None
    /\ thresold = 0
    /\ pc = "idle"
    /\ cur = 0
    /\ frame_paths = <<>>
    /\ frame_hashes = <<>>
    /\ process_results = <<>>
    /\ temp_dirs = {}
    /\ hashed_assets = <<>>
    /\ groups = <<>>
    /\ assigned = {}
    /\ result = NoResult
    /\ stdout = <<>>

(***************************************************************************)
(* grouping.rs: group_assets_by_visual_similarity and process_asset        *)
(***************************************************************************)
Init ==
    /\ assets \in AssetInputs
    /\ thresold_opt \in ThresoldInputs
    /\ thresold = 0
    /\ pc = "start"
    /\ cur = 0
    /\ frame_paths = <<>>
    /\ frame_hashes = <<>>
    /\ process_results = <<>>
    /\ temp_dirs = {}
    /\ hashed_assets = <<>>
    /\ groups = <<>>
    /\ assigned = {}
    /\ result = NoResult
    /\ stdout = <<>>
    /\ cmp = CmpIdle
    /\ ham = HamIdle
    /\ VideoIdle

\* thresold.unwrap_or(15)
UnwrapThresold(opt) == IF opt.some THEN opt.val ELSE DefaultThresold

\* lines 108-114: the default thresold and the empty input
Start ==
    /\ pc = "start"
    /\ thresold' = UnwrapThresold(thresold_opt)
    /\ IF Len(assets) = 0
       THEN /\ result' = [NoResult EXCEPT !.status = "ok"]
            /\ pc' = "done"
            /\ cur' = cur
       ELSE /\ result' = result
            /\ pc' = "process"
            /\ cur' = 1
    /\ UNCHANGED <<assets, thresold_opt, frame_paths, frame_hashes, process_results,
                   temp_dirs, hashed_assets, groups, assigned, stdout>>
    /\ UNCHANGED <<cmp, ham, videoVars>>

\* a plausible slip: the failing asset is skipped and the call goes on
SkipFailedAsset(stage) ==
    /\ temp_dirs' = temp_dirs \ {cur}
    /\ frame_paths' = <<>>
    /\ frame_hashes' = <<>>
    /\ IF cur = Len(assets)
       THEN /\ pc' = "group"
            /\ cur' = cur
       ELSE /\ pc' = "process"
            /\ cur' = cur + 1
    /\ UNCHANGED <<assets, thresold_opt, thresold, process_results, hashed_assets,
                   groups, assigned, result, stdout>>
    /\ UNCHANGED <<cmp, ham, videoVars>>

\* `?` in process_asset and in the map closure (line 124), then collect into
\* Result (line 127): the error leaves process_asset, which drops its own
\* temp_dir, and leaves the call, which drops the results collected so far with
\* their temp dirs; no later asset is taken from the iterator.
FailCall(stage) ==
    /\ result' = [NoResult EXCEPT !.status = "err", !.asset = cur, !.stage = stage]
    /\ temp_dirs' = {}
    /\ process_results' = <<>>
    /\ hashed_assets' = <<>>
    /\ frame_paths' = <<>>
    /\ frame_hashes' = <<>>
    /\ pc' = "done"
    /\ UNCHANGED <<assets, thresold_opt, thresold, cur, groups, assigned, stdout>>
    /\ UNCHANGED <<cmp, ham, videoVars>>

\* lines 119-123 and 13-14: a video asset; TempDir::new()
ProcessVideo ==
    /\ pc = "process"
    /\ assets[cur].is_video
    /\ stdout' = Append(stdout, cur)
    /\ \/ /\ temp_dirs' = temp_dirs \cup {cur}
          /\ pc' = "extract"
          /\ UNCHANGED <<assets, thresold_opt, thresold, cur, frame_paths, frame_hashes,
                         process_results, hashed_assets, groups, assigned, result>>
       \/ /\ result' = [NoResult EXCEPT !.status = "err", !.asset = cur,
                                        !.stage = "temp_dir"]
          /\ temp_dirs' = {}
          /\ process_results' = <<>>
          /\ hashed_assets' = <<>>
          /\ pc' = "done"
          /\ UNCHANGED <<assets, thresold_opt, thresold, cur, frame_paths, frame_hashes,
                         groups, assigned>>
    /\ UNCHANGED <<cmp, ham, videoVars>>

\* lines 119-123 and 24: an image asset is its own single frame, no temp dir
ProcessImage ==
    /\ pc = "process"
    /\ ~assets[cur].is_video
    /\ stdout' = Append(stdout, cur)
    /\ frame_paths' = <<[dir |-> 0, file |-> assets[cur].path]>>
    /\ pc' = "dimensions"
    /\ UNCHANGED <<assets, thresold_opt, thresold, cur, frame_hashes, process_results,
                   temp_dirs, hashed_assets, groups, assigned, result>>
    /\ UNCHANGED <<cmp, ham, videoVars>>

\* lines 15-16: extract_frames_from_video(&asset.path, &temp_dir)?, which
\* returns at least one path inside temp_dir or fails (video.rs:169-175)
ExtractFrames ==
    /\ pc = "extract"
    /\ \/ \E n \in 1..MaxFrames :
            /\ frame_paths' = [k \in 1..n |-> [dir |-> cur, file |-> k - 1]]
            /\ pc' = "dimensions"
            /\ UNCHANGED <<assets, thresold_opt, thresold, cur, frame_hashes,
                           process_results, temp_dirs, hashed_assets, groups,
                           assigned, result, stdout>>
            /\ UNCHANGED <<cmp, ham, videoVars>>
       \/ FailCall("extract_frames")

\* lines 18-19 (get_video_dimension) and 27-29 (get_image_dimensions)
GetDimensions ==
    /\ pc = "dimensions"
    /\ \/ /\ pc' = "hash"
          /\ frame_hashes' = <<>>
          /\ UNCHANGED <<assets, thresold_opt, thresold, cur, frame_paths,
                         process_results, temp_dirs, hashed_assets, groups,
                         assigned, result, stdout>>
          /\ UNCHANGED <<cmp, ham, videoVars>>
       \/ FailCall("dimensions")

\* a file can be opened when it is the asset's own file or lies in a temp dir
\* that still exists
Readable(path) == path.dir = 0 \/ path.dir \in temp_dirs

\* lines 38-45: one iteration of the hashing loop
HashFrame ==
    /\ pc = "hash"
    /\ Len(frame_hashes) < Len(frame_paths)
    /\ LET index == Len(frame_hashes)
           frame_path == frame_paths[index + 1]
       IN \/ /\ Readable(frame_path)
             /\ \E hash \in FileHashes :
                  frame_hashes' = Append(frame_hashes,
                                         [frame_number |-> index, hash |-> hash])
             /\ UNCHANGED <<assets, thresold_opt, thresold, pc, cur, frame_paths,
                            process_results, temp_dirs, hashed_assets, groups,
                            assigned, result, stdout>>
             /\ UNCHANGED <<cmp, ham, videoVars>>
          \/ FailCall("hash")

\* a plausible slip: the temp dir is dropped as soon as the HashedAsset exists
ReleasedAtOnce(dirs, asset_index) == dirs \ {asset_index}

\* line 55: the temp dir moves into the returned tuple, so it stays on disk
KeptWithResult(dirs, asset_index) == dirs

\* lines 47-55 and 125-129: the HashedAsset is built and collected with its
\* temp dir; after the last one hashed_assets is cloned out of process_results
FinishAsset ==
    /\ pc = "hash"
    /\ Len(frame_hashes) = Len(frame_paths)
    /\ hashed_assets' = Append(hashed_assets,
                               [asset |-> assets[cur], frames |-> frame_hashes])
    /\ process_results' = Append(process_results, [temp_dir |-> assets[cur].is_video])
    /\ temp_dirs' = KeptWithResult(temp_dirs, cur)
    /\ IF cur = Len(assets)
       THEN /\ pc' = "group"
            /\ cur' = cur
       ELSE /\ pc' = "process"
            /\ cur' = cur + 1
    /\ frame_paths' = <<>>
    /\ frame_hashes' = <<>>
    /\ UNCHANGED <<assets, thresold_opt, thresold, groups, assigned, result, stdout>>
    /\ UNCHANGED <<cmp, ham, videoVars>>

\* assigned.contains(&hashed_asset.asset.id), lines 138 and 152
AlreadyAssigned(asg, hashed_asset) == hashed_asset.asset.id \in asg

\* a plausible slip: similarity to any member already in the group lets j join
RECURSIVE InnerScanChained(_, _, _, _)
InnerScanChained(anchor, j, members, asg) ==
    IF j > Len(hashed_assets) THEN [members |-> members, assigned |-> asg]
    ELSE IF AlreadyAssigned(asg, hashed_assets[j])
         THEN InnerScanChained(anchor, j + 1, members, asg)
         ELSE IF \E m \in 1..Len(members) :
                      are_assets_visually_similar(hashed_assets[members[m].path],
                                                  hashed_assets[j], thresold)
              THEN InnerScanChained(anchor, j + 1,
                                    Append(members, hashed_assets[j].asset),
                                    asg \cup {hashed_assets[j].asset.id})
              ELSE InnerScanChained(anchor, j + 1, members, asg)

\* a plausible slip: a joining asset is put in front of the group
RECURSIVE InnerScanPrepending(_, _, _, _)
InnerScanPrepending(anchor, j, members, asg) ==
    IF j > Len(hashed_assets) THEN [members |-> members, assigned |-> asg]
    ELSE IF AlreadyAssigned(asg, hashed_assets[j])
         THEN InnerScanPrepending(anchor, j + 1, members, asg)
         ELSE IF are_assets_visually_similar(hashed_assets[anchor], hashed_assets[j],
                                             thresold)
              THEN InnerScanPrepending(anchor, j + 1,
                                       <<hashed_assets[j].asset>> \o members,
                                       asg \cup {hashed_assets[j].asset.id})
              ELSE InnerScanPrepending(anchor, j + 1, members, asg)

\* a plausible slip: a joining asset is not marked assigned
RECURSIVE InnerScanUnmarked(_, _, _, _)
InnerScanUnmarked(anchor, j, members, asg) ==
    IF j > Len(hashed_assets) THEN [members |-> members, assigned |-> asg]
    ELSE IF AlreadyAssigned(asg, hashed_assets[j])
         THEN InnerScanUnmarked(anchor, j + 1, members, asg)
         ELSE IF are_assets_visually_similar(hashed_assets[anchor], hashed_assets[j],
                                             thresold)
              THEN InnerScanUnmarked(anchor, j + 1,
                                     Append(members, hashed_assets[j].asset), asg)
              ELSE InnerScanUnmarked(anchor, j + 1, members, asg)

\* lines 151-179: the inner loop over j in (i+1)..len, from position j
RECURSIVE InnerScan(_, _, _, _)
InnerScan(anchor, j, members, asg) ==
    IF j > Len(hashed_assets) THEN [members |-> members, assigned |-> asg]
    ELSE IF AlreadyAssigned(asg, hashed_assets[j])
         THEN InnerScan(anchor, j + 1, members, asg)
         ELSE IF are_assets_visually_similar(hashed_assets[anchor], hashed_assets[j],
                                             thresold)
              THEN InnerScan(anchor, j + 1,
                             Append(members, hashed_assets[j].asset),
                             asg \cup {hashed_assets[j].asset.id})
              ELSE InnerScan(anchor, j + 1, members, asg)

\* lines 137-182: the outer loop over i in 0..len, from position k.
\* AssetGroup.id is a fresh uuid, here the group's ordinal; AssetGroup.name
\* (extract_base_name of the anchor's name) is not modelled.
RECURSIVE OuterLoop(_, _, _)
OuterLoop(k, gs, asg) ==
    IF k > Len(hashed_assets) THEN [groups |-> gs, assigned |-> asg]
    ELSE IF AlreadyAssigned(asg, hashed_assets[k])
         THEN OuterLoop(k + 1, gs, asg)
         ELSE LET scan == InnerScan(k, k + 1, <<hashed_assets[k].asset>>,
                                    asg \cup {hashed_assets[k].asset.id})
              IN OuterLoop(k + 1,
                           Append(gs, [id |-> Len(gs) + 1, assets |-> scan.members]),
                           scan.assigned)

\* lines 134-182: grouping, from the empty groups and assigned set
GroupAssets ==
    /\ pc = "group"
    /\ \E done \in {OuterLoop(1, <<>>, {})} :
          /\ groups' = done.groups
          /\ assigned' = done.assigned
    /\ pc' = "return"
    /\ UNCHANGED <<assets, thresold_opt, thresold, cur, frame_paths, frame_hashes,
                   process_results, temp_dirs, hashed_assets, result, stdout>>
    /\ UNCHANGED <<cmp, ham, videoVars>>

\* lines 184-190: Ok(groups); process_results goes out of scope here, which
\* deletes every temp dir it still holds (hashed_assets keeps its value for the
\* properties that speak of the assets of a returned call)
ReturnGroups ==
    /\ pc = "return"
    /\ result' = [NoResult EXCEPT !.status = "ok", !.groups = groups]
    /\ process_results' = <<>>
    /\ temp_dirs' = {}
    /\ pc' = "done"
    /\ UNCHANGED <<assets, thresold_opt, thresold, cur, frame_paths, frame_hashes,
                   hashed_assets, groups, assigned, stdout>>
    /\ UNCHANGED <<cmp, ham, videoVars>>

Next ==
    \/ Start
    \/ ProcessVideo
    \/ ProcessImage
    \/ ExtractFrames
    \/ GetDimensions
    \/ HashFrame
    \/ FinishAsset
    \/ GroupAssets
    \/ ReturnGroups

Spec == Init /\ [][Next]_vars

(***************************************************************************)
(* SpecSimilar: are_assets_visually_similar applied to two HashedAssets.   *)
(***************************************************************************)
\* 8-byte hashes at distances 0, 1 and 2 of one another, and a 1-byte hash
\* whose length matches none of them
CmpHashes == {HashOfBits(0), HashOfBits(1), HashOfBits(2), <<0>>}
CmpThresolds == 0..3

CmpFrames ==
    UNION {
        {[k \in 1..n |-> [frame_number |-> k - 1, hash |-> hs[k]]] :
            hs \in [1..n -> CmpHashes]} :
        n \in 0..MaxCmpFrames}

CmpAssets(k) ==
    {[asset |-> [id |-> AssetId(k), path |-> k, is_video |-> v], frames |-> f] :
        v \in BOOLEAN, f \in CmpFrames}

InitSimilar ==
    /\ cmp \in {[state |-> "input", asset1 |-> a1, asset2 |-> a2, thresold |-> th,
                 result |-> FALSE] :
                    a1 \in CmpAssets(1), a2 \in CmpAssets(2), th \in CmpThresolds}
    /\ ham = HamIdle
    /\ GroupIdle
    /\ VideoIdle

Compare ==
    /\ cmp.state = "input"
    /\ cmp' = [cmp EXCEPT !.state = "done",
                          !.result = are_assets_visually_similar(cmp.asset1, cmp.asset2,
                                                                 cmp.thresold)]
    /\ UNCHANGED <<groupVars, ham, videoVars>>

NextSimilar == Compare

SpecSimilar == InitSimilar /\ [][NextSimilar]_vars

(***************************************************************************)
(* SpecHamming: hamming_distance applied to two byte sequences.            *)
(***************************************************************************)
\* 0b00000000, 0b00001111, 0b10101010, 0b11110000, 0b11111111
HamBytes == {0, 15, 170, 240, 255}

HamInputs ==
    UNION {[1..n -> HamBytes] : n \in 0..MaxHashLen}
        \cup {HashOfBits(0), HashOfBits(8 * HashLen)}

InitHamming ==
    /\ ham \in {[state |-> "input", hash1 |-> h1, hash2 |-> h2, result |-> Err] :
                    h1 \in HamInputs, h2 \in HamInputs}
    /\ cmp = CmpIdle
    /\ GroupIdle
    /\ VideoIdle

Distance ==
    /\ ham.state = "input"
    /\ ham' = [ham EXCEPT !.state = "done",
                          !.result = hamming_distance(ham.hash1, ham.hash2)]
    /\ UNCHANGED <<groupVars, cmp, videoVars>>

NextHamming == Distance

SpecHamming == InitHamming /\ [][NextHamming]_vars

(***************************************************************************)
(* video.rs: extract_frames_from_video.  Times are seconds * AV_TIME_BASE, *)
(* the unit of input.duration(); the f64 values the code computes from     *)
(* them are exact at these magnitudes.                                     *)
(***************************************************************************)
\* input.duration() of the model's videos: unknown (negative), empty, one
\* time unit, and the values around the interval boundaries
VideoDurations ==
    {-1, 0, 1, 3000000, 3000001, 6000001, 9999900, 10000000, 10000100,
     30000000, 30000100, 60000000, 60000100}

InitVideo ==
    /\ duration \in VideoDurations
    /\ frame_interval = 0
    /\ frame_times = <<>>
    /\ t = 0
    /\ idx = 0
    /\ packets_read = 0
    /\ vframe_paths = <<>>
    /\ vpc = "start"
    /\ vresult = "none"
    /\ cmp = CmpIdle
    /\ ham = HamIdle
    /\ GroupIdle

\* a plausible slip: `<=` where the code has `==`
FrameIntervalUpTo10(d) ==
    IF d <= 10 * AV_TIME_BASE THEN (3 * AV_TIME_BASE) \div 2
    ELSE IF d <= 30 * AV_TIME_BASE THEN 3 * AV_TIME_BASE
    ELSE IF d <= 60 * AV_TIME_BASE THEN 4 * AV_TIME_BASE
    ELSE 5 * AV_TIME_BASE

\* lines 55-63
FrameInterval(d) ==
    IF d = 10 * AV_TIME_BASE THEN (3 * AV_TIME_BASE) \div 2
    ELSE IF d <= 30 * AV_TIME_BASE THEN 3 * AV_TIME_BASE
    ELSE IF d <= 60 * AV_TIME_BASE THEN 4 * AV_TIME_BASE
    ELSE 5 * AV_TIME_BASE

\* any `?` of the function: it returns the error, frame_paths is dropped
VideoFails ==
    /\ vresult' = "err"
    /\ vpc' = "done"
    /\ vframe_paths' = <<>>
    /\ UNCHANGED <<duration, frame_interval, frame_times, t, idx, packets_read>>
    /\ UNCHANGED <<groupVars, cmp, ham>>

\* lines 46-68: get_video_duration(&video_path)? and the interval
SelectInterval ==
    /\ vpc = "start"
    /\ \/ /\ frame_interval' = FrameInterval(duration)
          /\ t' = 0
          /\ vpc' = "targets"
          /\ UNCHANGED <<duration, frame_times, idx, packets_read, vframe_paths, vresult>>
          /\ UNCHANGED <<groupVars, cmp, ham>>
       \/ VideoFails

\* lines 69-72: one iteration of `while t < duration`
PushTarget ==
    /\ vpc = "targets"
    /\ t < duration
    /\ frame_times' = Append(frame_times, t)
    /\ t' = t + frame_interval
    /\ UNCHANGED <<duration, frame_interval, idx, packets_read, vframe_paths, vpc, vresult>>
    /\ UNCHANGED <<groupVars, cmp, ham>>

\* lines 82-117: the input, the stream, the decoder and the scaler
OpenDecoder ==
    /\ vpc = "targets"
    /\ ~(t < duration)
    /\ Len(frame_times) <= MaxTargets
    /\ \/ /\ vpc' = "seek"
          /\ idx' = 0
          /\ UNCHANGED <<duration, frame_interval, frame_times, t, packets_read,
                         vframe_paths, vresult>>
          /\ UNCHANGED <<groupVars, cmp, ham>>
       \/ VideoFails

\* lines 121-127: the seek to the next target
Seek ==
    /\ vpc = "seek"
    /\ idx < Len(frame_times)
    /\ \/ /\ vpc' = "packets"
          /\ packets_read' = 0
          /\ UNCHANGED <<duration, frame_interval, frame_times, t, idx, vframe_paths,
                         vresult>>
          /\ UNCHANGED <<groupVars, cmp, ham>>
       \/ VideoFails

Abs(x) == IF x < 0 THEN -x ELSE x

\* decoded_frame.pts().unwrap_or(0) as f64 * f64::from(time_base), lines 133-134
CurrentTime(pts_opt) ==
    (IF pts_opt.some THEN pts_opt.val ELSE 0) * (AV_TIME_BASE \div TicksPerSecond)

\* line 135
WithinTolerance(pts_opt, target_time) ==
    Abs(CurrentTime(pts_opt) - target_time) < frame_interval \div 2

\* lines 132-155: `while decoder.receive_frame(..).is_ok()` over the frames the
\* decoder yields for one packet; every frame within tolerance is pushed
RECURSIVE ReceiveFrames(_, _, _, _)
ReceiveFrames(frames, target_time, target_idx, st) ==
    IF frames = <<>> THEN st
    ELSE IF WithinTolerance(Head(frames), target_time)
         THEN ReceiveFrames(Tail(frames), target_time, target_idx,
                            [frame_paths |-> Append(st.frame_paths, target_idx),
                             found_frame |-> TRUE])
         ELSE ReceiveFrames(Tail(frames), target_time, target_idx, st)

\* presentation times a decoded frame can carry, in time_base ticks: none, the
\* target, the last tick inside the tolerance window and the first one outside
PtsChoices(target_time) ==
    LET tick == AV_TIME_BASE \div TicksPerSecond
        half == frame_interval \div 2
    IN {None} \cup {Some(x \div tick) :
                       x \in {target_time, target_time + half - tick, target_time + half}}

PacketFrames(target_time) ==
    UNION {[1..n -> PtsChoices(target_time)] : n \in 0..MaxFramesPerPacket}

\* lines 128-161, the packet iterator is exhausted: the target is left
EndOfPackets ==
    /\ vpc = "packets"
    /\ idx' = idx + 1
    /\ vpc' = "seek"
    /\ UNCHANGED <<duration, frame_interval, frame_times, t, packets_read, vframe_paths,
                   vresult>>
    /\ UNCHANGED <<groupVars, cmp, ham>>

\* lines 128-129, a packet of another stream
OtherPacket ==
    /\ vpc = "packets"
    /\ packets_read < MaxPacketsPerSeek
    /\ packets_read' = packets_read + 1
    /\ UNCHANGED <<duration, frame_interval, frame_times, t, idx, vframe_paths, vpc,
                   vresult>>
    /\ UNCHANGED <<groupVars, cmp, ham>>

\* lines 129-159, a packet of the video stream
VideoPacket ==
    /\ vpc = "packets"
    /\ packets_read < MaxPacketsPerSeek
    /\ \E frames \in PacketFrames(frame_times[idx + 1]) :
         LET st == ReceiveFrames(frames, frame_times[idx + 1], idx,
                                 [frame_paths |-> vframe_paths, found_frame |-> FALSE])
         IN \/ /\ vframe_paths' = st.frame_paths
               /\ IF st.found_frame
                  THEN /\ idx' = idx + 1
                       /\ vpc' = "seek"
                       /\ packets_read' = packets_read
                  ELSE /\ idx' = idx
                       /\ vpc' = vpc
                       /\ packets_read' = packets_read + 1
               /\ UNCHANGED <<duration, frame_interval, frame_times, t, vresult>>
               /\ UNCHANGED <<groupVars, cmp, ham>>
            \/ \* scaler.run(..)? or save_frame_as_png(..)? fails, lines 138-145
               /\ st.found_frame
               /\ VideoFails

\* lines 164-175
FinishVideo ==
    /\ vpc = "seek"
    /\ idx = Len(frame_times)
    /\ vresult' = IF vframe_paths = <<>> THEN "err" ELSE "ok"
    /\ vpc' = "done"
    /\ UNCHANGED <<duration, frame_interval, frame_times, t, idx, packets_read,
                   vframe_paths>>
    /\ UNCHANGED <<groupVars, cmp, ham>>

NextVideo ==
    \/ SelectInterval
    \/ PushTarget
    \/ OpenDecoder
    \/ Seek
    \/ EndOfPackets
    \/ OtherPacket
    \/ VideoPacket
    \/ FinishVideo

SpecVideo == InitVideo /\ [][NextVideo]_vars

(***************************************************************************)
(* The claims.                                                             *)
(***************************************************************************)
Returned == pc = "done" /\ result.status = "ok"

\* positions <<g, m>> of the members of the returned groups
MemberPositions ==
    UNION {{<<g, m>> : m \in 1..Len(result.groups[g].assets)} :
               g \in 1..Len(result.groups)}

MemberAt(gm) == result.groups[gm[1]].assets[gm[2]]

InputIds == {assets[k].id : k \in 1..Len(assets)}

\* C1: when a call on a non-empty input returns groups, every input asset id
\* is at exactly one position of exactly one group (none lost, none
\* duplicated) and the ids of all group members are exactly the input ids.
C1_Partition ==
    (Returned /\ Len(assets) > 0) =>
        /\ \A x \in InputIds :
              Cardinality({gm \in MemberPositions : MemberAt(gm).id = x}) = 1
        /\ {MemberAt(gm).id : gm \in MemberPositions} = InputIds

\* C1 witness: three assets returned as two groups, one of them a merged pair.
C1_Witness ==
    /\ Returned
    /\ Len(assets) = 3
    /\ Len(result.groups) = 2
    /\ \E g \in 1..2 : Len(result.groups[g].assets) = 2

\* the comparator on the hashed assets at two input positions
Similar(a, b) == are_assets_visually_similar(hashed_assets[a], hashed_assets[b], thresold)

GroupPaths(gs) == [g \in 1..Len(gs) |-> [m \in 1..Len(gs[g].assets) |-> gs[g].assets[m].path]]

\* C2: in the returned groups every member after the first is similar to the
\* group's first member, its anchor; and three assets A, B, C in input order
\* with A~B, B~C and A not similar to C are returned as the two groups [A, B]
\* and [C].
C2_AnchorOnly ==
    Returned =>
        /\ \A g \in 1..Len(result.groups) : \A m \in 2..Len(result.groups[g].assets) :
              Similar(result.groups[g].assets[1].path, result.groups[g].assets[m].path)
        /\ (Len(assets) = 3 /\ Similar(1, 2) /\ Similar(2, 3) /\ ~Similar(1, 3))
              => GroupPaths(result.groups) = <<<<1, 2>>, <<3>>>>

\* C2 witness: the call returned for three assets with A~B, B~C, A not~ C.
C2_Witness ==
    /\ Returned
    /\ Len(assets) = 3
    /\ Similar(1, 2)
    /\ Similar(2, 3)
    /\ ~Similar(1, 3)

BitAt(x, b) == (x \div Pow2(b)) % 2

\* the number of bit positions in which two equal-length byte sequences differ
DiffBits(h1, h2) ==
    Cardinality({pb \in (1..Len(h1)) \X (0..7) :
                    BitAt(h1[pb[1]], pb[2]) # BitAt(h2[pb[1]], pb[2])})

CmpOverlap == 1..Min(Len(cmp.asset1.frames), Len(cmp.asset2.frames))

CmpPairedDistances ==
    {DiffBits(cmp.asset1.frames[k].hash, cmp.asset2.frames[k].hash) : k \in CmpOverlap}

CmpComparable ==
    /\ cmp.state = "done"
    /\ cmp.asset1.asset.is_video = cmp.asset2.asset.is_video
    /\ Len(cmp.asset1.frames) >= 1
    /\ Len(cmp.asset2.frames) >= 1
    /\ \A k \in CmpOverlap :
          Len(cmp.asset1.frames[k].hash) = Len(cmp.asset2.frames[k].hash)

\* C3: for two assets of the same type, each with a frame, whose paired hashes
\* have equal lengths, the comparator answers true exactly when every paired
\* distance over the overlapping prefix is below the thresold: a largest
\* distance equal to the thresold gives false, one less gives true.
C3_ThresoldBoundary ==
    CmpComparable =>
        /\ cmp.result <=> (\A d \in CmpPairedDistances : d < cmp.thresold)
        /\ (\E d \in CmpPairedDistances :
               d = cmp.thresold /\ \A e \in CmpPairedDistances : e <= d) => ~cmp.result
        /\ (\E d \in CmpPairedDistances :
               d = cmp.thresold - 1 /\ \A e \in CmpPairedDistances : e <= d) => cmp.result

\* C3 witness: assets with different frame counts whose largest paired distance
\* is one less than the thresold, found similar.
C3_Witness ==
    /\ CmpComparable
    /\ Len(cmp.asset1.frames) # Len(cmp.asset2.frames)
    /\ cmp.thresold - 1 \in CmpPairedDistances
    /\ \A e \in CmpPairedDistances : e <= cmp.thresold - 1
    /\ cmp.result

\* the least thresold, the call's, and one above every possible distance
AnyThresold == {0, thresold, 8 * HashLen + 1}

\* C4: two hashed assets whose is_video flags differ are never similar, under
\* any thresold and whatever their hashes, and no group holds both a video and
\* an image.
C4_TypeGating ==
    /\ \A a \in 1..Len(hashed_assets) : \A b \in 1..Len(hashed_assets) :
          hashed_assets[a].asset.is_video # hashed_assets[b].asset.is_video =>
              \A th \in AnyThresold :
                  ~are_assets_visually_similar(hashed_assets[a], hashed_assets[b], th)
    /\ \A g \in 1..Len(groups) : \A m \in 1..Len(groups[g].assets) :
          groups[g].assets[m].is_video = groups[g].assets[1].is_video

\* C4 witness: a video and an image with identical hashes, returned in
\* different groups.
C4_Witness ==
    /\ Returned
    /\ Len(hashed_assets) = 2
    /\ hashed_assets[1].asset.is_video
    /\ ~hashed_assets[2].asset.is_video
    /\ hashed_assets[1].frames = hashed_assets[2].frames
    /\ Len(result.groups) = 2

\* C5: assets are processed in input order; a call that ends in an error ends
\* at the asset that failed, which is the last one processing started for, and
\* returns no groups; a call that returns groups processed every asset.
C5_NoPartialSuccess ==
    /\ stdout = [k \in 1..Len(stdout) |-> k]
    /\ (pc = "done" /\ result.status = "err") =>
          /\ result.asset = Len(stdout)
          /\ result.groups = <<>>
          /\ groups = <<>>
    /\ Returned =>
          /\ Len(stdout) = Len(assets)
          /\ Len(hashed_assets) = Len(assets)

\* C5 witness: the second of three assets fails while its frame is hashed.
C5_Witness ==
    /\ pc = "done"
    /\ result.status = "err"
    /\ result.stage = "hash"
    /\ result.asset = 2
    /\ Len(assets) = 3

\* C6: the returned groups are in the input order of their first members, and
\* the members of every group are in ascending input order, so that the first
\* member, the anchor, is the group's lowest input position.
C6_GroupOrder ==
    Returned =>
        LET paths == GroupPaths(result.groups)
        IN /\ \A g \in 1..Len(paths) : \A h \in 1..Len(paths) :
                 g < h => paths[g][1] < paths[h][1]
           /\ \A g \in 1..Len(paths) : \A m \in 1..Len(paths[g]) : \A n \in 1..Len(paths[g]) :
                 m < n => paths[g][m] < paths[g][n]

\* C6 witness: the first and third asset form the first group, the second
\* asset the second group.
C6_Witness ==
    /\ Returned
    /\ GroupPaths(result.groups) = <<<<1, 3>>, <<2>>>>

\* C7: for equal-length byte sequences hamming_distance is the number of
\* differing bit positions; it is 0 on equal sequences, the same in both
\* argument orders, and 8 times the length when all bits differ.
C7_HammingDistance ==
    (ham.state = "done" /\ Len(ham.hash1) = Len(ham.hash2)) =>
        /\ ham.result.ok
        /\ ham.result.val = DiffBits(ham.hash1, ham.hash2)
        /\ ham.hash1 = ham.hash2 => ham.result.val = 0
        /\ hamming_distance(ham.hash2, ham.hash1) = ham.result
        /\ (\A k \in 1..Len(ham.hash1) : ham.hash1[k] + ham.hash2[k] = 255)
              => ham.result.val = 8 * Len(ham.hash1)

\* C7 witness: two 8-byte hashes that differ in all bits, at distance 64.
C7_Witness ==
    /\ ham.state = "done"
    /\ Len(ham.hash1) = 8
    /\ Len(ham.hash2) = 8
    /\ ham.result.ok
    /\ ham.result.val = 64

\* C8: the interval is 1.5 s only for a duration of exactly 10.0 s; otherwise
\* 3.0 s up to 30.0 s, 4.0 s above 30.0 s up to 60.0 s, and 5.0 s above.
C8_IntervalSelection ==
    vpc \in {"targets", "seek", "packets"} =>
        /\ duration = 10000000 => frame_interval = 1500000
        /\ (duration # 10000000 /\ duration <= 30000000) => frame_interval = 3000000
        /\ (duration > 30000000 /\ duration <= 60000000) => frame_interval = 4000000
        /\ duration > 60000000 => frame_interval = 5000000
        /\ duration = 10000100 => frame_interval = 3000000
        /\ duration = 30000100 => frame_interval = 4000000

\* C8 witness: a video of exactly 10.0 s sampled every 1.5 s.
C8_Witness ==
    /\ vpc = "targets"
    /\ duration = 10000000
    /\ frame_interval = 1500000
    /\ Len(frame_times) = 7

VideoAssets == {k \in 1..Len(assets) : assets[k].is_video}

\* created before extraction, valid while the asset is hashed, never for an image
TempDirWhileProcessing ==
    /\ temp_dirs \subseteq VideoAssets
    /\ (pc \in {"extract", "dimensions", "hash"} /\ assets[cur].is_video)
          => cur \in temp_dirs
    /\ pc = "hash" => \A k \in 1..Len(frame_paths) : Readable(frame_paths[k])
    /\ (pc = "done" /\ result.status = "err") => temp_dirs = {}

\* C9 as stated: in addition, a temp dir is gone once its asset's HashedAsset
\* has been produced, before the next asset is processed and before grouping.
C9_ReleasedOnceHashed ==
    /\ TempDirWhileProcessing
    /\ \A k \in 1..Len(process_results) : k \notin temp_dirs

\* C9 amended: a video's temp dir exists from before frame extraction through
\* the asset's hash generation and stays on disk, with those of the assets
\* processed before it, until the call returns its groups or fails; an image
\* never has one.
C9_KeptUntilReturn ==
    /\ TempDirWhileProcessing
    /\ pc # "done" =>
          \A k \in 1..Len(process_results) : assets[k].is_video => k \in temp_dirs
    /\ pc = "done" => temp_dirs = {}

\* C9 witness: grouping is complete and the temp dir of a video processed
\* before an image is still on disk.
C9_Witness ==
    /\ pc = "return"
    /\ Len(groups) = 2
    /\ Len(assets) >= 2
    /\ assets[1].is_video
    /\ ~assets[2].is_video
    /\ 1 \in temp_dirs

\* C10: each target timestamp contributes at most one frame path, so there are
\* never more frame paths than targets.
C10_OneFramePerTarget ==
    /\ \A k \in 0..Len(frame_times) :
          Cardinality({p \in 1..Len(vframe_paths) : vframe_paths[p] = k}) <= 1
    /\ Len(vframe_paths) <= Len(frame_times)

====
